---- MODULE Spec2Model ----
(***************************************************************************)
(* Model of PointGreyCameraControl (storm_control/hal4000/camera/          *)
(* pointgreyCameraControl.py): the reconciliation of the seven Point Grey  *)
(* properties between the parameter store and the camera in               *)
(* newParameters(), including the ordering of the AOI geometry writes.     *)
(*                                                                         *)
(* newParameters() is synchronous and single threaded, so one call is one  *)
(* action.  Everything the call does to its collaborators, in order, is    *)
(* kept in the trace of the call (the variable `last`).                    *)
(***************************************************************************)
EXTENDS Integers, Sequences, FiniteSets, TLC

\* ------------------------------------------------------------------ bounds
\* Chip size (WidthMax and HeightMax) of the small camera of the model.
SmallChip == 5
\* Chip size (both axes) of the large camera, requested sparsely.
LargeChip == 2048

\* ------------------------------------------------------- program constants
MinSize == 4
DeclaredFrameRate == 10
DeclaredFrameRateMax == 500
DeclaredBlackLevel == 1
DeclaredGain == 10

\* The values a parameter snapshot may carry for the non geometry properties.
\* 300 is below the declared maximum (500) and above the camera's real one.
FrameRates == {10, 20, 300}
BlackLevels == {1, 2}
Gains == {10}

\* The AOI sizes and offsets a snapshot may carry for a chip dimension.
Sizes(chip) == IF chip = LargeChip THEN {500, chip} ELSE MinSize..chip
Offsets(chip) == IF chip = LargeChip THEN {0, 100} ELSE 0..(chip - MinSize)

\* ---------------------------------------------------------------- names
\* Mutant: the geometry properties in another order.
pgrey_props_reordered == <<"AcquisitionFrameRate", "BlackLevel", "Gain", "OffsetX",
                           "OffsetY", "Width", "Height">>

pgrey_props == <<"AcquisitionFrameRate", "BlackLevel", "Gain", "Height",
                 "OffsetX", "OffsetY", "Width">>

TrackedNames == {pgrey_props[k] : k \in 1..Len(pgrey_props)}

GeometryNames == {"Height", "OffsetX", "OffsetY", "Width"}

ExemptNames == {"AcquisitionFrameRate", "Height", "OffsetX", "OffsetY", "Width"}

DerivedNames == {"x_end", "x_pixels", "x_start", "y_end", "y_pixels", "y_start"}

\* ------------------------------------------------------------- the camera
\* The camera is a function from property names to values.  The range of a
\* property is recomputed from the current values of the others.
spinNodeGetMinimum(camera, pname) ==
    CASE pname = "AcquisitionFrameRate" -> 1
      [] pname = "BlackLevel" -> 0
      [] pname = "Gain" -> 0
      [] pname = "Height" -> MinSize
      [] pname = "OffsetX" -> 0
      [] pname = "OffsetY" -> 0
      [] pname = "Width" -> MinSize
      [] pname = "ExposureTime" -> 1

spinNodeGetMaximum(camera, pname) ==
    CASE pname = "AcquisitionFrameRate" -> 100
      [] pname = "BlackLevel" -> 3
      [] pname = "Gain" -> 20
      [] pname = "Height" -> camera["HeightMax"] - camera["OffsetY"]
      [] pname = "OffsetX" -> camera["WidthMax"] - camera["Width"]
      [] pname = "OffsetY" -> camera["HeightMax"] - camera["Height"]
      [] pname = "Width" -> camera["WidthMax"] - camera["OffsetX"]
      [] pname = "ExposureTime" -> 1000000 \div camera["AcquisitionFrameRate"]

Clamp(value, lo, hi) == IF value < lo THEN lo ELSE IF value > hi THEN hi ELSE value

\* camera.setProperty(pname, value): the device clamps silently.
setProperty(camera, pname, value) ==
    [camera EXCEPT ![pname] = Clamp(value, spinNodeGetMinimum(camera, pname),
                                    spinNodeGetMaximum(camera, pname))]

\* ------------------------------------------------------ the trace of a call
Event(kind, iter, prop, val, lo, hi, streaming) ==
    [kind |-> kind, iter |-> iter, prop |-> prop, val |-> val, lo |-> lo,
     hi |-> hi, streaming |-> streaming]

\* A call in progress: c.store is self.parameters, c.camera is self.camera,
\* c.parameters is the snapshot passed in, c.ok is FALSE once an exception
\* has propagated.
Log(c, kind, iter, prop, val, lo, hi) ==
    [c EXCEPT !.trace = Append(@, Event(kind, iter, prop, val, lo, hi, c.running))]

\* One camera.setProperty() call issued by the iteration `iter` of newParameters.
CameraSet(c, iter, pname, value) ==
    [Log(c, "set", iter, pname, value, spinNodeGetMinimum(c.camera, pname),
         spinNodeGetMaximum(c.camera, pname))
       EXCEPT !.camera = setProperty(c.camera, pname, value)]

\* ------------------------------------------------------ the parameter store
\* Parameter.setv() of a ranged parameter: a value outside [lo, hi] raises.
InRange(value, lo, hi) == lo <= value /\ value <= hi

\* parameters.get(pname) inside a call.  In the initialization call the
\* snapshot passed in is self.parameters itself.
Get(c, pname) == IF c.initialization THEN c.store.val[pname] ELSE c.parameters[pname]

\* parameters.setv(pname, value) on the snapshot passed in; hi is the
\* maximum of the snapshot's parameter (0 when it has none).
Setv(c, pname, value, hi) ==
    IF ~c.ok THEN c
    ELSE IF hi # 0 /\ ~InRange(value, 1, hi)
         THEN [Log(c, "raise", "translate", pname, value, 1, hi) EXCEPT !.ok = FALSE]
         ELSE IF c.initialization
              THEN [c EXCEPT !.store.val[pname] = value]
              ELSE [c EXCEPT !.parameters[pname] = value]

\* Mutant: x_end and y_end one pixel further.
TranslateEndExclusive(c) ==
    LET x_chip == Get(c, "x_chip")
        y_chip == Get(c, "y_chip")
        c1 == Setv(c, "x_end", Get(c, "OffsetX") + Get(c, "Width"), x_chip + 1)
        c2 == Setv(c1, "x_pixels", Get(c, "Width"), 0)
        c3 == Setv(c2, "x_start", Get(c, "OffsetX") + 1, x_chip)
        c4 == Setv(c3, "y_end", Get(c, "OffsetY") + Get(c, "Height"), y_chip + 1)
        c5 == Setv(c4, "y_pixels", Get(c, "Height"), 0)
    IN  Setv(c5, "y_start", Get(c, "OffsetY") + 1, y_chip)

\* Translate AOI information to parameters used by HAL.  The maximum of
\* x_end and x_start is x_chip, that of y_end and y_start is y_chip.
Translate(c) ==
    LET x_chip == Get(c, "x_chip")
        y_chip == Get(c, "y_chip")
        c1 == Setv(c, "x_end", Get(c, "OffsetX") + Get(c, "Width") - 1, x_chip)
        c2 == Setv(c1, "x_pixels", Get(c, "Width"), 0)
        c3 == Setv(c2, "x_start", Get(c, "OffsetX") + 1, x_chip)
        c4 == Setv(c3, "y_end", Get(c, "OffsetY") + Get(c, "Height") - 1, y_chip)
        c5 == Setv(c4, "y_pixels", Get(c, "Height"), 0)
    IN  Setv(c5, "y_start", Get(c, "OffsetY") + 1, y_chip)

\* Mutant: initialization does not force a property into the list.
ToChangeDifferentOnly(c) ==
    SelectSeq(pgrey_props, LAMBDA pname : c.store.val[pname] # Get(c, pname))

\* Mutant: the properties to change in reverse order.
ToChangeReversed(c) ==
    LET forward == SelectSeq(pgrey_props,
                             LAMBDA pname : (c.store.val[pname] # Get(c, pname))
                                            \/ c.initialization)
    IN  [i \in 1..Len(forward) |-> forward[Len(forward) + 1 - i]]

\* The properties to change: those that differ, all of them at initialization.
ToChange(c) ==
    SelectSeq(pgrey_props,
              LAMBDA pname : (c.store.val[pname] # Get(c, pname)) \/ c.initialization)

\* self.stopCamera() and self.startCamera() of the camera control base class.
stopCamera(c) == [Log(c, "stop", "-", "-", 0, 0, 0) EXCEPT !.running = FALSE]

startCamera(c) == [Log(c, "start", "-", "-", 0, 0, 0) EXCEPT !.running = TRUE]

\* Mutant: the companions of the other axis.
CompanionCrossed(pname) ==
    CASE pname = "Height" -> "OffsetX"
      [] pname = "OffsetX" -> "Height"
      [] pname = "OffsetY" -> "Width"
      [] pname = "Width" -> "OffsetY"

\* The property written first when pname is enlarged.
Companion(pname) ==
    CASE pname = "Height" -> "OffsetY"
      [] pname = "OffsetX" -> "Width"
      [] pname = "OffsetY" -> "Height"
      [] pname = "Width" -> "OffsetX"

\* Mutant: no companion is written first.
ChangePropertyNoPreWrite(c, pname) == CameraSet(c, pname, pname, Get(c, pname))

\* Mutant: the companion is written first when pname shrinks.
ChangePropertyReversed(c, pname) ==
    LET pre == IF pname \in GeometryNames /\ Get(c, pname) < c.store.val[pname]
               THEN CameraSet(c, pname, Companion(pname), Get(c, Companion(pname)))
               ELSE c
    IN  CameraSet(pre, pname, pname, Get(c, pname))

\* Mutant: the companion is written with the store's value.
ChangePropertyStaleCompanion(c, pname) ==
    LET pre == IF pname \in GeometryNames /\ Get(c, pname) > c.store.val[pname]
               THEN CameraSet(c, pname, Companion(pname), c.store.val[Companion(pname)])
               ELSE c
    IN  CameraSet(pre, pname, pname, Get(c, pname))

\* Mutant: every set call is copied into the store at once.
ChangePropertyEager(c, pname) ==
    LET other == Companion(pname)
        pre == IF pname \in GeometryNames /\ Get(c, pname) > c.store.val[pname]
               THEN [CameraSet(c, pname, other, Get(c, other))
                       EXCEPT !.store.val[other] = Get(c, other)]
               ELSE c
    IN  [CameraSet(pre, pname, pname, Get(c, pname))
           EXCEPT !.store.val[pname] = Get(c, pname)]

\* One iteration of the "Change camera" loop.
ChangeProperty(c, pname) ==
    LET pre == IF pname \in GeometryNames /\ Get(c, pname) > c.store.val[pname]
               THEN CameraSet(c, pname, Companion(pname), Get(c, Companion(pname)))
               ELSE c
    IN  CameraSet(pre, pname, pname, Get(c, pname))

RECURSIVE ChangeCamera(_, _)
ChangeCamera(c, k) ==
    IF k > Len(c.to_change) THEN c
    ELSE ChangeCamera(ChangeProperty(c, c.to_change[k]), k + 1)

\* Mutant: the ranges of all properties are republished at initialization.
UpdatePropertyNoExemption(c, pname) ==
    LET hi == spinNodeGetMaximum(c.camera, pname)
        lo == spinNodeGetMinimum(c.camera, pname)
        value == Get(c, pname)
        bounded == [Log(c, "republish", pname, pname, value, lo, hi)
                      EXCEPT !.store.max[pname] = hi, !.store.min[pname] = lo]
    IN  IF InRange(value, lo, hi)
        THEN [bounded EXCEPT !.store.val[pname] = value]
        ELSE [Log(bounded, "raise", pname, pname, value, lo, hi) EXCEPT !.ok = FALSE]

\* Mutant: the ranges are republished, the value is not.
UpdatePropertyBoundsOnly(c, pname) ==
    IF c.initialization /\ pname \in ExemptNames THEN c
    ELSE LET hi == spinNodeGetMaximum(c.camera, pname)
             lo == spinNodeGetMinimum(c.camera, pname)
         IN  [Log(c, "republish", pname, pname, Get(c, pname), lo, hi)
                EXCEPT !.store.max[pname] = hi, !.store.min[pname] = lo]

\* Mutant: the store takes the value read back from the camera.
UpdatePropertyReadBack(c, pname) ==
    IF c.initialization /\ pname \in ExemptNames THEN c
    ELSE LET hi == spinNodeGetMaximum(c.camera, pname)
             lo == spinNodeGetMinimum(c.camera, pname)
             value == c.camera[pname]
         IN  [Log(c, "republish", pname, pname, value, lo, hi)
                EXCEPT !.store.max[pname] = hi, !.store.min[pname] = lo,
                       !.store.val[pname] = value]

\* One iteration of the "Update properties" loop.
UpdateProperty(c, pname) ==
    IF c.initialization /\ pname \in ExemptNames THEN c
    ELSE LET hi == spinNodeGetMaximum(c.camera, pname)
             lo == spinNodeGetMinimum(c.camera, pname)
             value == Get(c, pname)
             bounded == [Log(c, "republish", pname, pname, value, lo, hi)
                           EXCEPT !.store.max[pname] = hi, !.store.min[pname] = lo]
         IN  IF InRange(value, lo, hi)
             THEN [bounded EXCEPT !.store.val[pname] = value]
             ELSE [Log(bounded, "raise", pname, pname, value, lo, hi) EXCEPT !.ok = FALSE]

RECURSIVE UpdateProperties(_, _)
UpdateProperties(c, k) ==
    IF k > Len(pgrey_props) \/ ~c.ok THEN c
    ELSE UpdateProperties(UpdateProperty(c, pgrey_props[k]), k + 1)

\* Mutant: the exposure time is set to the value the camera has.
SyncExposureKeep(c) ==
    LET set == CameraSet(c, "resync", "ExposureTime", c.camera["ExposureTime"])
        exposure == set.camera["ExposureTime"]
        fps == set.camera["AcquisitionFrameRate"]
        timed == [Log(set, "readback", "resync", "exposure_time", exposure, 0, 0)
                    EXCEPT !.store.exposure_time = <<exposure, 1000000>>]
    IN  [Log(timed, "readback", "resync", "fps", fps, 0, 0)
           EXCEPT !.store.val["fps"] = fps]

\* Set the exposure time to be the maximum given the current frame rate,
\* then read exposure time and frame rate back into the store.
\* exposure_time is 1.0e-6 * microseconds, kept as the fraction <<us, 1000000>>.
SyncExposure(c) ==
    LET set == CameraSet(c, "resync", "ExposureTime",
                         spinNodeGetMaximum(c.camera, "ExposureTime"))
        exposure == set.camera["ExposureTime"]
        fps == set.camera["AcquisitionFrameRate"]
        timed == [Log(set, "readback", "resync", "exposure_time", exposure, 0, 0)
                    EXCEPT !.store.exposure_time = <<exposure, 1000000>>]
    IN  [Log(timed, "readback", "resync", "fps", fps, 0, 0)
           EXCEPT !.store.val["fps"] = fps]

parametersChanged(c) == Log(c, "emit", "-", "-", 0, 0, 0)

\* Mutant: the ranges are republished before the camera is changed.
ReconfigureStaleRanges(c) ==
    LET running == c.running
        stopped == IF running THEN stopCamera(c) ELSE c
        updated == UpdateProperties(stopped, 1)
        changed == ChangeCamera(updated, 1)
        synced == SyncExposure(changed)
        restarted == IF running THEN startCamera(synced) ELSE synced
    IN  IF updated.ok THEN parametersChanged(restarted) ELSE updated

\* Mutant: the notification is emitted before the camera is restarted.
ReconfigureEmitFirst(c) ==
    LET running == c.running
        stopped == IF running THEN stopCamera(c) ELSE c
        changed == ChangeCamera(stopped, 1)
        updated == UpdateProperties(changed, 1)
        synced == parametersChanged(SyncExposure(updated))
    IN  IF updated.ok THEN (IF running THEN startCamera(synced) ELSE synced) ELSE updated

\* Mutant: a camera that was running is restarted when the update raised.
ReconfigureRestartOnError(c) ==
    LET running == c.running
        stopped == IF running THEN stopCamera(c) ELSE c
        changed == ChangeCamera(stopped, 1)
        updated == UpdateProperties(changed, 1)
        synced == SyncExposure(updated)
        restarted == IF running THEN startCamera(synced) ELSE synced
    IN  IF updated.ok THEN parametersChanged(restarted)
        ELSE IF running THEN startCamera(updated) ELSE updated

\* Mutant: the camera is not stopped.
ReconfigureNoStop(c) ==
    LET running == c.running
        changed == ChangeCamera(c, 1)
        updated == UpdateProperties(changed, 1)
        synced == SyncExposure(updated)
        restarted == IF running THEN startCamera(synced) ELSE synced
    IN  IF updated.ok THEN parametersChanged(restarted) ELSE updated

\* Mutant: the camera is not restarted.
ReconfigureNoRestart(c) ==
    LET running == c.running
        stopped == IF running THEN stopCamera(c) ELSE c
        changed == ChangeCamera(stopped, 1)
        updated == UpdateProperties(changed, 1)
        synced == SyncExposure(updated)
    IN  IF updated.ok THEN parametersChanged(synced) ELSE updated

\* The body of "if (len(to_change)>0):".
Reconfigure(c) ==
    LET running == c.running
        stopped == IF running THEN stopCamera(c) ELSE c
        changed == ChangeCamera(stopped, 1)
        updated == UpdateProperties(changed, 1)
        synced == SyncExposure(updated)
        restarted == IF running THEN startCamera(synced) ELSE synced
    IN  IF updated.ok THEN parametersChanged(restarted) ELSE updated

\* Mutant: the camera is reconfigured whether or not a property changes.
newParametersAlways(store, camera, running, parameters, initialization) ==
    LET entry == [store |-> store, camera |-> camera, running |-> running,
                  parameters |-> parameters, initialization |-> initialization,
                  to_change |-> <<>>, trace |-> <<>>, ok |-> TRUE]
        translated == Translate(entry)
        c == [translated EXCEPT !.to_change = ToChange(translated)]
        done == IF ~translated.ok THEN translated ELSE Reconfigure(c)
    IN  IF initialization THEN [done EXCEPT !.parameters = done.store.val] ELSE done

\* PointGreyCameraControl.newParameters(parameters, initialization).
newParameters(store, camera, running, parameters, initialization) ==
    LET entry == [store |-> store, camera |-> camera, running |-> running,
                  parameters |-> parameters, initialization |-> initialization,
                  to_change |-> <<>>, trace |-> <<>>, ok |-> TRUE]
        translated == Translate(entry)
        c == [translated EXCEPT !.to_change = ToChange(translated)]
        done == IF ~translated.ok THEN translated
                ELSE IF Len(c.to_change) > 0 THEN Reconfigure(c) ELSE c
    IN  IF initialization THEN [done EXCEPT !.parameters = done.store.val] ELSE done

\* ------------------------------------------------------------------ state
VARIABLES
    store,      \* self.parameters: values, minima, maxima, exposure_time
    camera,     \* self.camera: the properties of the device
    running,    \* self.running
    phase,      \* "constructed" (line 166 reached), "returned" (a call has
                \* just returned), "idle", "crashed" (an exception propagated)
    last        \* the newParameters call that has just returned: its
                \* inputs, its trace and its outcome

vars == <<store, camera, running, phase, last>>

ParamNames == TrackedNames \cup DerivedNames \cup {"x_chip", "y_chip", "fps"}

NoParameters == [n \in ParamNames |-> 0]

NoCall == [called |-> FALSE, initialization |-> FALSE, repeated |-> FALSE,
           arrived |-> NoParameters, parameters |-> NoParameters,
           entryStore |-> [val |-> NoParameters], entryCamera |-> <<>>,
           entryRunning |-> FALSE, exitRunning |-> FALSE,
           to_change |-> <<>>, trace |-> <<>>, ok |-> TRUE,
           previous |-> <<>>]

\* The parameters declared by __init__ for a chip of x_chip by y_chip pixels.
DeclaredStore(cam, x_chip, y_chip) ==
    [val |-> [n \in ParamNames |->
                 CASE n = "AcquisitionFrameRate" -> DeclaredFrameRate
                   [] n = "BlackLevel" -> DeclaredBlackLevel
                   [] n = "Gain" -> DeclaredGain
                   [] n = "Height" -> y_chip
                   [] n = "OffsetX" -> 0
                   [] n = "OffsetY" -> 0
                   [] n = "Width" -> x_chip
                   [] n = "x_chip" -> x_chip
                   [] n = "y_chip" -> y_chip
                   [] n = "fps" -> 0
                   [] OTHER -> 1],
     min |-> [n \in TrackedNames |->
                 CASE n \in {"AcquisitionFrameRate", "BlackLevel", "Gain"} ->
                          spinNodeGetMinimum(cam, n)
                   [] n \in {"Height", "Width"} -> MinSize
                   [] OTHER -> 0],
     max |-> [n \in TrackedNames |->
                 CASE n = "AcquisitionFrameRate" -> DeclaredFrameRateMax
                   [] n \in {"BlackLevel", "Gain"} -> spinNodeGetMaximum(cam, n)
                   [] n = "Height" -> y_chip
                   [] n = "OffsetX" -> x_chip - MinSize
                   [] n = "OffsetY" -> y_chip - MinSize
                   [] n = "Width" -> x_chip],
     exposure_time |-> <<0, 1000000>>]

\* Mutant: the offsets are left where the device was found, against the
\* far edge of the chip.
FoundCameraOffsetsKept(x_chip, y_chip, width, height, rate) ==
    [n \in TrackedNames \cup {"WidthMax", "HeightMax", "ExposureTime"} |->
        CASE n = "WidthMax" -> x_chip
          [] n = "HeightMax" -> y_chip
          [] n = "Width" -> width
          [] n = "Height" -> height
          [] n = "OffsetX" -> x_chip - width
          [] n = "OffsetY" -> y_chip - height
          [] n = "AcquisitionFrameRate" -> rate
          [] n = "ExposureTime" -> 1000
          [] OTHER -> 0]

\* The device as __init__ leaves it before its newParameters call: the
\* offsets reset to 0, everything else as the device was found.
FoundCamera(x_chip, y_chip, width, height, rate) ==
    [n \in TrackedNames \cup {"WidthMax", "HeightMax", "ExposureTime"} |->
        CASE n = "WidthMax" -> x_chip
          [] n = "HeightMax" -> y_chip
          [] n = "Width" -> width
          [] n = "Height" -> height
          [] n = "AcquisitionFrameRate" -> rate
          [] n = "ExposureTime" -> 1000
          [] OTHER -> 0]

Chips == {<<SmallChip, SmallChip>>, <<LargeChip, LargeChip>>}

Init ==
    \E chip \in Chips, rate \in {1, 30} :
      \E width \in {MinSize, chip[1]}, height \in {MinSize, chip[2]} :
        /\ camera = FoundCamera(chip[1], chip[2], width, height, rate)
        /\ store = DeclaredStore(camera, chip[1], chip[2])
        /\ running = FALSE
        /\ phase = "constructed"
        /\ last = NoCall

\* The effect of one newParameters call on the state; repeated: the snapshot
\* is the one the previous call was given, and last.previous is what that
\* call changed.
Call(parameters, initialization, repeated) ==
    \E c \in {newParameters(store, camera, running, parameters, initialization)} :
        /\ store' = c.store
        /\ camera' = c.camera
        /\ running' = c.running
        /\ phase' = IF c.ok THEN "returned" ELSE "crashed"
        /\ last' = [called |-> TRUE, initialization |-> initialization,
                    repeated |-> repeated,
                    arrived |-> parameters, parameters |-> c.parameters,
                    entryStore |-> store, entryCamera |-> camera,
                    entryRunning |-> running, exitRunning |-> c.running,
                    to_change |-> c.to_change, trace |-> c.trace, ok |-> c.ok,
                    previous |-> last.to_change]

\* Line 167: self.newParameters(self.parameters, initialization = True).
Construct ==
    /\ phase = "constructed"
    /\ Call(store.val, TRUE, FALSE)

\* A snapshot: a copy of the store's parameters with requested values of
\* the pgrey_props.
Snapshot(afr, bl, gain, height, ox, oy, width) ==
    [n \in ParamNames |->
        CASE n = "AcquisitionFrameRate" -> afr
          [] n = "BlackLevel" -> bl
          [] n = "Gain" -> gain
          [] n = "Height" -> height
          [] n = "OffsetX" -> ox
          [] n = "OffsetY" -> oy
          [] n = "Width" -> width
          [] OTHER -> store.val[n]]

\* newParameters(parameters) with a fresh snapshot.
NewParameters ==
    /\ phase = "idle"
    /\ \E afr \in FrameRates, bl \in BlackLevels, gain \in Gains :
         \E ox \in Offsets(store.val["x_chip"]), width \in Sizes(store.val["x_chip"]),
            oy \in Offsets(store.val["y_chip"]), height \in Sizes(store.val["y_chip"]) :
           Call(Snapshot(afr, bl, gain, height, ox, oy, width), FALSE, FALSE)

\* newParameters(parameters) with the snapshot of the call that has just
\* returned, submitted again.
Resubmit ==
    /\ phase = "returned"
    /\ ~last.initialization
    /\ Call(last.parameters, FALSE, TRUE)

\* Control goes back to the event loop.
Idle ==
    /\ phase = "returned"
    /\ phase' = "idle"
    /\ last' = NoCall
    /\ UNCHANGED <<store, camera, running>>

\* The film starts or stops between two calls (base class).
StartFilm ==
    /\ phase = "idle" /\ ~running
    /\ running' = TRUE
    /\ UNCHANGED <<store, camera, phase, last>>

StopFilm ==
    /\ phase = "idle" /\ running
    /\ running' = FALSE
    /\ UNCHANGED <<store, camera, phase, last>>

Next == Construct \/ NewParameters \/ Resubmit \/ Idle \/ StartFilm \/ StopFilm

Spec == Init /\ [][Next]_vars

\* ------------------------------------------------- reading a call's trace
\* The camera.setProperty() calls of the call that has just returned.
SetCalls == SelectSeq(last.trace, LAMBDA e : e.kind = "set")

\* The set calls issued by the loop iteration of pname.
SetCallsOf(pname) == SelectSeq(last.trace, LAMBDA e : e.kind = "set" /\ e.iter = pname)

\* The set calls for the geometry properties.
GeometryCalls == SelectSeq(last.trace, LAMBDA e : e.kind = "set" /\ e.prop \in GeometryNames)

Changed == {last.to_change[k] : k \in 1..Len(last.to_change)}

\* The position in the trace of the own write of pname (0 when there is none).
OwnWrite(pname) ==
    LET at == {i \in 1..Len(last.trace) :
                  /\ last.trace[i].kind = "set"
                  /\ last.trace[i].iter = pname
                  /\ last.trace[i].prop = pname}
    IN  IF at = {} THEN 0 ELSE CHOOSE i \in at : TRUE

\* The camera after the first n events of the trace.
RECURSIVE CameraAfter(_)
CameraAfter(n) ==
    IF n = 0 THEN last.entryCamera
    ELSE LET e == last.trace[n]
         IN  IF e.kind = "set" THEN setProperty(CameraAfter(n - 1), e.prop, e.val)
             ELSE CameraAfter(n - 1)

\* offset + size <= chip on both axes, sizes and offsets within their minima.
ValidGeometry(g, x_chip, y_chip) ==
    /\ g["OffsetX"] >= 0 /\ g["Width"] >= MinSize /\ g["OffsetX"] + g["Width"] <= x_chip
    /\ g["OffsetY"] >= 0 /\ g["Height"] >= MinSize /\ g["OffsetY"] + g["Height"] <= y_chip

XChip == store.val["x_chip"]
YChip == store.val["y_chip"]

SameGeometry(f, g) == \A pname \in GeometryNames : f[pname] = g[pname]

\* ------------------------------------------------------------------ claims

\* C1 (order safety): in every call after initialization in which the camera's
\* geometry on entry equals the store's and is valid, and the requested
\* geometry is valid, every set call for Height, OffsetX, OffsetY or Width,
\* companion pre-writes included, carries a value inside the range the camera
\* reports at that instant, and offset + size <= chip holds on both axes
\* after every single write.
OrderSafety ==
    (/\ last.called /\ ~last.initialization
     /\ SameGeometry(last.entryCamera, last.entryStore.val)
     /\ ValidGeometry(last.entryStore.val, XChip, YChip)
     /\ ValidGeometry(last.parameters, XChip, YChip))
    => \A i \in 1..Len(last.trace) :
          LET e == last.trace[i]
          IN  (e.kind = "set" /\ e.prop \in GeometryNames)
              => /\ InRange(e.val, e.lo, e.hi)
                 /\ ValidGeometry(CameraAfter(i), XChip, YChip)

\* A completed call that moves the AOI to the right and shrinks it, which
\* needs the Width pre-write before OffsetX is written.
OrderSafetyWitness ==
    /\ last.called /\ ~last.initialization /\ last.ok
    /\ last.parameters["OffsetX"] > last.entryStore.val["OffsetX"]
    /\ last.parameters["Width"] < last.entryStore.val["Width"]
    /\ last.parameters["Height"] > last.entryStore.val["Height"]
    /\ \E i \in 1..Len(last.trace) :
          /\ last.trace[i].kind = "set"
          /\ last.trace[i].iter = "OffsetX" /\ last.trace[i].prop = "Width"

ReconciliationEffect ==
    (/\ last.called /\ Len(last.to_change) > 0
     /\ ValidGeometry(last.parameters, XChip, YChip))
    => /\ \A pname \in GeometryNames \cap Changed : camera[pname] = last.parameters[pname]
       /\ \A i \in 1..Len(GeometryCalls) :
             InRange(GeometryCalls[i].val, GeometryCalls[i].lo, GeometryCalls[i].hi)

\* A call that changes all four geometry properties, two of them upwards.
ReconciliationEffectWitness ==
    /\ last.called /\ ~last.initialization
    /\ GeometryNames \subseteq Changed
    /\ ValidGeometry(last.parameters, XChip, YChip)
    /\ last.parameters["OffsetY"] < last.entryStore.val["OffsetY"]
    /\ last.parameters["Height"] > last.entryStore.val["Height"]
    /\ camera["Height"] = last.parameters["Height"]

\* The scenario of C4: chip 2048 x 2048, current geometry (0, 0, 2048, 2048),
\* requested (OffsetX 100, OffsetY 100, Width 500, Height 500).
Scenario ==
    /\ last.called /\ ~last.initialization
    /\ XChip = LargeChip /\ YChip = LargeChip
    /\ last.entryStore.val["OffsetX"] = 0 /\ last.entryStore.val["OffsetY"] = 0
    /\ last.entryStore.val["Width"] = LargeChip
    /\ last.entryStore.val["Height"] = LargeChip
    /\ last.parameters["OffsetX"] = 100 /\ last.parameters["OffsetY"] = 100
    /\ last.parameters["Width"] = 500 /\ last.parameters["Height"] = 500

GeometryProps == [i \in 1..Len(GeometryCalls) |-> GeometryCalls[i].prop]

GeometryValues == [i \in 1..Len(GeometryCalls) |-> GeometryCalls[i].val]

\* C4 as stated: in the scenario the geometry set calls are exactly OffsetX,
\* OffsetY, Width, Height, one each, with no companion pre-write.
ScenarioStoreOrder ==
    Scenario => GeometryProps = <<"OffsetX", "OffsetY", "Width", "Height">>

\* C4 (amended): in the scenario the geometry set calls are Height, Width (the
\* pre-write of OffsetX), OffsetX, Height (the pre-write of OffsetY), OffsetY,
\* Width, with the values 500, 500, 100, 500, 100, 500, each inside the
\* range the camera reports at that instant.
ScenarioWriteOrder ==
    Scenario =>
      /\ GeometryProps = <<"Height", "Width", "OffsetX", "Height", "OffsetY", "Width">>
      /\ GeometryValues = <<500, 500, 100, 500, 100, 500>>
      /\ \A i \in 1..Len(GeometryCalls) :
            InRange(GeometryCalls[i].val, GeometryCalls[i].lo, GeometryCalls[i].hi)
      /\ SameGeometry(camera, last.parameters)

ScenarioWitness == Scenario /\ last.ok /\ Len(GeometryCalls) = 6

\* C5 (derived fields): in every call that gets to its first camera write or
\* returns without an exception, the snapshot passed in holds
\* x_end = OffsetX + Width - 1, x_start = OffsetX + 1, x_pixels = Width, and
\* the same on the y axis; OffsetX = 100 and Width = 500 give 101, 599, 500.
DerivedFieldConsistency ==
    (last.called /\ (last.ok \/ Len(SetCalls) > 0))
    => LET p == last.parameters
       IN  /\ p["x_end"] = p["OffsetX"] + p["Width"] - 1
           /\ p["x_start"] = p["OffsetX"] + 1
           /\ p["x_pixels"] = p["Width"]
           /\ p["y_end"] = p["OffsetY"] + p["Height"] - 1
           /\ p["y_start"] = p["OffsetY"] + 1
           /\ p["y_pixels"] = p["Height"]
           /\ (p["OffsetX"] = 100 /\ p["Width"] = 500)
              => (p["x_start"] = 101 /\ p["x_end"] = 599 /\ p["x_pixels"] = 500)

\* A completed call whose snapshot arrived with other derived fields and
\* carries OffsetX = 100, Width = 500.
DerivedFieldWitness ==
    /\ last.called /\ ~last.initialization /\ last.ok
    /\ last.parameters["OffsetX"] = 100 /\ last.parameters["Width"] = 500
    /\ last.arrived["x_end"] # last.parameters["x_end"]
    /\ last.arrived["y_start"] # last.parameters["y_start"]
    /\ Len(SetCalls) > 0

\* The positions in the trace of the events of the given kinds.
Positions(kinds) == {i \in 1..Len(last.trace) : last.trace[i].kind \in kinds}

\* C6 (initialization exemption): after the initialization call the store's
\* minimum and maximum of AcquisitionFrameRate, Height, OffsetX, OffsetY and
\* Width are the declared ones (AcquisitionFrameRate at most 500, Width in
\* [4, x_chip], OffsetX in [0, x_chip - 4]) although the five were written to
\* the camera, and those of BlackLevel and Gain are the camera's current ones.
InitializationExemption ==
    (last.called /\ last.initialization)
    => /\ \A pname \in ExemptNames :
             /\ store.min[pname] = last.entryStore.min[pname]
             /\ store.max[pname] = last.entryStore.max[pname]
             /\ OwnWrite(pname) > 0
       /\ store.max["AcquisitionFrameRate"] = 500
       /\ store.min["Width"] = 4 /\ store.max["Width"] = XChip
       /\ store.min["OffsetX"] = 0 /\ store.max["OffsetX"] = XChip - 4
       /\ \A pname \in {"BlackLevel", "Gain"} :
             /\ store.min[pname] = spinNodeGetMinimum(camera, pname)
             /\ store.max[pname] = spinNodeGetMaximum(camera, pname)
             /\ \E i \in Positions({"republish"}) : last.trace[i].prop = pname

\* The initialization call has returned and the camera's ranges of the five
\* are not the declared ones.
InitializationExemptionWitness ==
    /\ last.called /\ last.initialization /\ last.ok
    /\ spinNodeGetMaximum(camera, "AcquisitionFrameRate") # store.max["AcquisitionFrameRate"]
    /\ spinNodeGetMaximum(camera, "OffsetX") # store.max["OffsetX"]
    /\ spinNodeGetMaximum(camera, "OffsetY") # store.max["OffsetY"]
    /\ camera["Width"] # last.entryCamera["Width"]

\* C7 (full sync at initialization): in the initialization call all seven
\* pgrey_props are in the changed set, although the snapshot's values equal
\* the store's, and each of them gets a set call.
InitializationFullSync ==
    (last.called /\ last.initialization)
    => /\ last.to_change = pgrey_props
       /\ Changed = TrackedNames /\ Cardinality(TrackedNames) = 7
       /\ \A pname \in TrackedNames :
             /\ last.arrived[pname] = last.entryStore.val[pname]
             /\ OwnWrite(pname) > 0

InitializationFullSyncWitness ==
    /\ last.called /\ last.initialization /\ last.ok
    /\ Len(SetCalls) >= 7
    /\ camera["Gain"] = DeclaredGain /\ last.entryCamera["Gain"] # DeclaredGain

\* C8 (idempotence): a call that is given again the snapshot of the call
\* before it, a call after initialization that returned without an
\* exception, computes an empty changed set, makes no set call (none to
\* ExposureTime either), neither stops nor starts the camera and emits no
\* notification.
Idempotence ==
    (last.called /\ last.repeated)
    => /\ last.to_change = <<>>
       /\ last.trace = <<>>
       /\ last.ok
       /\ camera = last.entryCamera
       /\ running = last.entryRunning

\* The snapshot of a call that changed the camera while it was running is
\* submitted again.
IdempotenceWitness ==
    /\ last.called /\ last.repeated
    /\ Len(last.previous) > 1
    /\ last.entryRunning

\* C9 (start/stop bracketing): in a call with a non-empty changed set and the
\* camera running on entry, stopCamera comes before the first set call, and
\* startCamera, if it comes, comes after the last set call and after the
\* store has been republished and resynchronised; no set call of any call is
\* issued while the camera is running.
StartStopBracketing ==
    last.called =>
      /\ \A i \in Positions({"set"}) : ~last.trace[i].streaming
      /\ (Len(last.to_change) > 0 /\ last.entryRunning) =>
            /\ last.trace[1].kind = "stop"
            /\ Cardinality(Positions({"stop"})) = 1
            /\ Cardinality(Positions({"start"})) <= 1
            /\ last.ok => Cardinality(Positions({"start"})) = 1
            /\ \A i \in Positions({"start"}) :
                  \A j \in Positions({"set", "republish", "readback"}) : j < i

\* A running camera is reconfigured with a companion pre-write and restarted.
StartStopBracketingWitness ==
    /\ last.called /\ last.entryRunning /\ last.ok
    /\ Len(SetCalls) > 3
    /\ Positions({"start"}) # {}

\* C10 (running flag restored): after a call that returns without an
\* exception the camera runs if and only if it ran on entry, and startCamera
\* was not invoked for a camera that was stopped on entry.
RunningRestored ==
    (last.called /\ last.ok)
    => /\ running = last.entryRunning
       /\ last.exitRunning = last.entryRunning
       /\ ~last.entryRunning => Positions({"start"}) = {}

\* Both cases: the witness is a call on a running camera that changed it.
RunningRestoredWitness ==
    /\ last.called /\ last.ok /\ ~last.initialization
    /\ last.entryRunning /\ running
    /\ Positions({"stop"}) # {}

\* The position of the last set call of the "Change camera" loop (0: none).
LastTrackedWrite ==
    LET at == {i \in Positions({"set"}) : last.trace[i].prop \in TrackedNames}
    IN  IF at = {} THEN 0 ELSE CHOOSE i \in at : \A j \in at : j <= i

\* C11 (empty changed set): a call after initialization whose snapshot carries
\* the store's values of all pgrey_props makes no set call and no range
\* query, neither stops nor starts the camera, running or not, leaves the
\* store's bounds as they are and emits no notification.
EmptyChangeIsNoOp ==
    (/\ last.called /\ ~last.initialization
     /\ \A pname \in TrackedNames : last.arrived[pname] = last.entryStore.val[pname])
    => /\ last.to_change = <<>>
       /\ last.trace = <<>>
       /\ last.ok
       /\ camera = last.entryCamera
       /\ running = last.entryRunning
       /\ store.min = last.entryStore.min /\ store.max = last.entryStore.max
       /\ store = last.entryStore

\* A fresh snapshot with the store's values arrives while the camera runs.
EmptyChangeWitness ==
    /\ last.called /\ ~last.initialization /\ ~last.repeated
    /\ \A pname \in TrackedNames : last.arrived[pname] = last.entryStore.val[pname]
    /\ last.entryRunning
    /\ last.entryStore.val["Width"] < XChip

\* C12 (notification): a call with a non-empty changed set that returns
\* without an exception emits parametersChanged exactly once, as its last
\* step: after all set calls, after the store is republished and after the
\* restart of a camera that was running.
NotificationLast ==
    (last.called /\ Len(last.to_change) > 0 /\ last.ok)
    => /\ Cardinality(Positions({"emit"})) = 1
       /\ last.trace[Len(last.trace)].kind = "emit"
       /\ \A i \in Positions({"set", "republish", "readback", "stop", "start"}) :
             i < Len(last.trace)
       /\ last.entryRunning => Positions({"start"}) # {}

NotificationLastWitness ==
    /\ last.called /\ ~last.initialization /\ last.ok
    /\ last.entryRunning
    /\ Positions({"start"}) # {} /\ Positions({"emit"}) # {}
    /\ Len(GeometryCalls) > 1

\* C13 (fresh ranges): after a call after initialization with a non-empty
\* changed set that returns without an exception, the store's minimum and
\* maximum of each of the seven pgrey_props, changed or not, are those the
\* camera reports once all set calls of the "Change camera" loop are done;
\* no bound is read before or between those set calls.
FreshRanges ==
    (last.called /\ ~last.initialization /\ Len(last.to_change) > 0 /\ last.ok)
    => LET written == CameraAfter(LastTrackedWrite)
       IN  /\ \A pname \in TrackedNames :
                 /\ store.min[pname] = spinNodeGetMinimum(written, pname)
                 /\ store.max[pname] = spinNodeGetMaximum(written, pname)
                 /\ \E i \in Positions({"republish"}) : last.trace[i].prop = pname
           /\ \A i \in Positions({"republish"}) : i > LastTrackedWrite

\* Width alone shrinks: the maximum of the unchanged OffsetX moves.
FreshRangesWitness ==
    /\ last.called /\ ~last.initialization /\ last.ok
    /\ last.to_change = <<"Width">>
    /\ store.max["OffsetX"] # last.entryStore.max["OffsetX"]
    /\ store.max["OffsetX"] > 0

\* The republish step of pname raised.
Raised(pname) ==
    \E i \in Positions({"raise"}) : last.trace[i].iter = pname

RangeViolationAbort ==
    (/\ last.called /\ last.entryRunning
     /\ \E pname \in TrackedNames : Raised(pname))
    => /\ ~last.ok /\ phase = "crashed"
       /\ ~running /\ ~last.exitRunning
       /\ Positions({"stop"}) = {1}
       /\ Positions({"start", "emit", "readback"}) = {}
       /\ last.trace[Len(last.trace)].kind = "raise"
       /\ \A i \in Positions({"set"}) : last.trace[i].prop \in TrackedNames
       /\ camera = CameraAfter(Len(last.trace))
       /\ \A i \in Positions({"set"}) :
             last.trace[i].iter = last.trace[i].prop
                => camera[last.trace[i].prop]
                     = Clamp(last.trace[i].val, last.trace[i].lo, last.trace[i].hi)
       /\ \A i \in Positions({"republish"}) :
             /\ store.min[last.trace[i].prop] = last.trace[i].lo
             /\ store.max[last.trace[i].prop] = last.trace[i].hi
       /\ \A pname \in TrackedNames :
             store.val[pname] \in {last.entryStore.val[pname], last.parameters[pname]}

\* A running camera, a frame rate above the camera's maximum together with a
\* smaller Width: the Width is in the camera and the store's maximum of the
\* frame rate is the camera's, the camera is left stopped.
RangeViolationAbortWitness ==
    /\ last.called /\ last.entryRunning /\ ~running
    /\ Raised("AcquisitionFrameRate")
    /\ camera["Width"] # last.entryCamera["Width"]
    /\ store.max["AcquisitionFrameRate"] # last.entryStore.max["AcquisitionFrameRate"]

\* The place of a property in the order of the "Change camera" loop.
WriteRank(pname) ==
    CASE pname = "AcquisitionFrameRate" -> 1
      [] pname = "BlackLevel" -> 2
      [] pname = "Gain" -> 3
      [] pname = "Height" -> 4
      [] pname = "OffsetX" -> 5
      [] pname = "OffsetY" -> 6
      [] pname = "Width" -> 7

\* The positions of the own writes: the set calls that end an iteration.
OwnWrites == {i \in Positions({"set"}) : last.trace[i].iter = last.trace[i].prop}

\* C16 (write order): once the "Change camera" loop has run, every property
\* of the changed set has exactly one own write, no other property has one,
\* and the own writes come in the order AcquisitionFrameRate, BlackLevel,
\* Gain, Height, OffsetX, OffsetY, Width; the own write of a changed
\* AcquisitionFrameRate comes before every set call of a geometry property.
WriteOrder ==
    (last.called /\ Len(last.to_change) > 0)
    => /\ \A pname \in TrackedNames :
             Cardinality({i \in OwnWrites : last.trace[i].prop = pname})
                = IF pname \in Changed THEN 1 ELSE 0
       /\ \A i, j \in OwnWrites :
             i < j => WriteRank(last.trace[i].prop) < WriteRank(last.trace[j].prop)
       /\ "AcquisitionFrameRate" \in Changed
             => \A i \in Positions({"set"}) :
                   last.trace[i].prop \in GeometryNames
                      => OwnWrite("AcquisitionFrameRate") < i

\* The frame rate and all four geometry properties change after
\* initialization.
WriteOrderWitness ==
    /\ last.called /\ ~last.initialization /\ last.ok
    /\ {"AcquisitionFrameRate"} \cup GeometryNames \subseteq Changed
    /\ Cardinality(OwnWrites) >= 5
    /\ Len(GeometryCalls) > 4

\* C17 (write frame): in the "Change camera" loop of a call after
\* initialization a property is written only if it is in the changed set, or
\* if it is the companion of a changed geometry property whose requested
\* value is above the store's; the changed set holds exactly the properties
\* whose requested value differs from the store's, and every set call carries
\* the snapshot's requested value of the property it writes.
WriteFrame ==
    (last.called /\ ~last.initialization /\ Len(last.to_change) > 0)
    => /\ Changed = {pname \in TrackedNames :
                        last.parameters[pname] # last.entryStore.val[pname]}
       /\ \A i \in Positions({"set"}) :
             LET e == last.trace[i]
             IN  e.iter # "resync"
                 => /\ e.prop \in TrackedNames
                    /\ e.val = last.parameters[e.prop]
                    /\ \/ e.prop \in Changed
                       \/ \E pname \in GeometryNames \cap Changed :
                             /\ Companion(pname) = e.prop
                             /\ last.parameters[pname] > last.entryStore.val[pname]

\* OffsetX alone grows: the unchanged Width is written too, with its
\* requested value, and no other property is written.
WriteFrameWitness ==
    /\ last.called /\ ~last.initialization /\ last.ok
    /\ last.to_change = <<"OffsetX">>
    /\ Len(SetCallsOf("OffsetX")) = 2
    /\ \E i \in Positions({"set"}) : last.trace[i].prop = "Width"
    /\ \A i \in Positions({"set"}) :
          last.trace[i].prop \in {"Width", "OffsetX", "ExposureTime"}

\* The positions of the ExposureTime set calls.
ExposureWrites == {i \in Positions({"set"}) : last.trace[i].prop = "ExposureTime"}

\* C18 as stated: every call with a non-empty changed set writes ExposureTime
\* exactly once, after the set calls of the loop and before any restart, with
\* the maximum the camera reports, and fps is the camera's frame rate.
ExposureResyncAlways ==
    (last.called /\ Len(last.to_change) > 0)
    => /\ Cardinality(ExposureWrites) = 1
       /\ \A i \in ExposureWrites :
             /\ i > LastTrackedWrite
             /\ \A j \in Positions({"start"}) : i < j
             /\ last.trace[i].val = last.trace[i].hi
       /\ store.val["fps"] = camera["AcquisitionFrameRate"]

\* C18 (amended): a call with a non-empty changed set that returns writes
\* ExposureTime exactly once, after all set calls of the "Change camera"
\* loop and all republish steps and before any restart, with the maximum of
\* ExposureTime the camera reports at that moment; the store's fps is then
\* the camera's AcquisitionFrameRate read after that write.  A call whose
\* republish step raises does not write ExposureTime and leaves fps alone.
ExposureResync ==
    (last.called /\ Len(last.to_change) > 0)
    => IF last.ok
       THEN /\ Cardinality(ExposureWrites) = 1
            /\ \A i \in ExposureWrites :
                  /\ i > LastTrackedWrite
                  /\ \A j \in Positions({"republish"}) : j < i
                  /\ \A j \in Positions({"start", "emit"}) : i < j
                  /\ \A j \in Positions({"stop"}) : j < i
                  /\ last.trace[i].val
                        = spinNodeGetMaximum(CameraAfter(i - 1), "ExposureTime")
                  /\ camera["ExposureTime"] = last.trace[i].val
                  /\ store.val["fps"] = CameraAfter(i)["AcquisitionFrameRate"]
                  /\ \E j \in Positions({"readback"}) :
                        /\ j > i
                        /\ last.trace[j].prop = "fps"
                        /\ last.trace[j].val = store.val["fps"]
            /\ store.val["fps"] = camera["AcquisitionFrameRate"]
            /\ store.exposure_time = <<camera["ExposureTime"], 1000000>>
       ELSE /\ ExposureWrites = {}
            /\ store.val["fps"] = last.entryStore.val["fps"]
            /\ camera["ExposureTime"] = last.entryCamera["ExposureTime"]

\* The frame rate of a running camera changes: ExposureTime moves to the new
\* maximum before the restart and fps follows the camera.
ExposureResyncWitness ==
    /\ last.called /\ ~last.initialization /\ last.ok /\ last.entryRunning
    /\ "AcquisitionFrameRate" \in Changed
    /\ Cardinality(ExposureWrites) = 1
    /\ camera["ExposureTime"] # last.entryCamera["ExposureTime"]
    /\ store.val["fps"] # last.entryStore.val["fps"]

\* The set calls of the "Change camera" loop.
LoopCalls == SelectSeq(last.trace, LAMBDA e : e.kind = "set" /\ e.iter # "resync")

\* C19 (initialization writes): in the call made by __init__ the snapshot is
\* the store, so no requested value is above the store's and no companion is
\* written first: the loop makes exactly seven set calls, one per property
\* in the order of pgrey_props, with Height = y_chip, OffsetX = 0,
\* OffsetY = 0 and Width = x_chip, each within the camera's range at that
\* moment, the offsets of the camera having been reset to 0.
InitializationWrites ==
    (last.called /\ last.initialization)
    => /\ \A pname \in TrackedNames : last.parameters[pname] = last.entryStore.val[pname]
       /\ last.entryCamera["OffsetX"] = 0 /\ last.entryCamera["OffsetY"] = 0
       /\ Len(LoopCalls) = 7
       /\ \A k \in 1..Len(LoopCalls) :
             /\ LoopCalls[k].iter = LoopCalls[k].prop
             /\ LoopCalls[k].prop \in TrackedNames
             /\ WriteRank(LoopCalls[k].prop) = k
             /\ LoopCalls[k].prop \in GeometryNames
                   => /\ InRange(LoopCalls[k].val, LoopCalls[k].lo, LoopCalls[k].hi)
                      /\ camera[LoopCalls[k].prop] = LoopCalls[k].val
       /\ LoopCalls[4].val = YChip /\ LoopCalls[5].val = 0
       /\ LoopCalls[6].val = 0 /\ LoopCalls[7].val = XChip

\* The device was found with a Width and a Height below the chip's: both
\* grow to the full chip without a companion write.
InitializationWritesWitness ==
    /\ last.called /\ last.initialization
    /\ last.entryCamera["Width"] < XChip /\ last.entryCamera["Height"] < YChip
    /\ camera["Width"] = XChip /\ camera["Height"] = YChip
    /\ Len(LoopCalls) = 7

\* C20 (store untouched during the writes): the store's values of the
\* pgrey_props are written only after the last set call of the "Change
\* camera" loop, so every companion write is decided against the store's
\* value on entry; after a call with a non-empty changed set that returns,
\* the store's value of each of the seven properties, changed or not, is the
\* snapshot's requested value.
StoreAfterWrites ==
    (last.called /\ Len(last.to_change) > 0)
    => /\ \A i \in Positions({"republish"}) : i > LastTrackedWrite
       /\ \A pname \in GeometryNames \cap Changed :
             Len(SetCallsOf(pname))
                = IF last.parameters[pname] > last.entryStore.val[pname] THEN 2 ELSE 1
       /\ \A pname \in TrackedNames :
             /\ last.ok => store.val[pname] = last.parameters[pname]
             /\ store.val[pname] # last.entryStore.val[pname]
                   => \E i \in Positions({"republish"}) :
                         last.trace[i].prop = pname /\ ~Raised(pname)

\* OffsetX shrinks and Width grows in one call: Width, written after OffsetX,
\* is still compared with the store's Width on entry; Height is unchanged.
StoreAfterWritesWitness ==
    /\ last.called /\ ~last.initialization /\ last.ok
    /\ {"OffsetX", "Width"} \subseteq Changed
    /\ Len(SetCallsOf("Width")) = 2
    /\ "Height" \notin Changed
    /\ store.val["Width"] = last.parameters["Width"]
    /\ store.val["Width"] # last.entryStore.val["Width"]

====
